---- MODULE Spec2Model ----
(***************************************************************************)
(* Model of the graphql_object attribute macro of async_graphql_extras     *)
(* (src/src/lib.rs).  One behaviour is one expansion of the macro: the     *)
(* macro arguments and the reference struct are chosen in Init, and the    *)
(* actions are the steps of graphql_object: validating the struct-level    *)
(* options, generating the output struct, generating the input struct     *)
(* together with the Into implementation.                                  *)
(*                                                                         *)
(* Syntax trees are records.  An Option<T> is a sequence of length 0       *)
(* (None) or 1 (Some).  An attribute is [path, tokens]: path is the        *)
(* sequence of path segments, tokens the sequence of meta items that       *)
(* follow the path (= "text" is the single literal item named "=").      *)
(***************************************************************************)
EXTENDS Integers, Sequences, FiniteSets, TLC

VARIABLES attr_args, reference_struct, options, out, pc, panic

vars == <<attr_args, reference_struct, options, out, pc, panic>>

\* ------------------------------------------------------------------ bounds
MaxArgs == 2
MaxFields == 2

\* ------------------------------------------------------------ syntax trees
None == <<>>
Some(v) == <<v>>

Word(name) == [name |-> name, kind |-> "word", val |-> ""]
NameValue(name, val) == [name |-> name, kind |-> "str", val |-> val]
EqLit(val) == [name |-> "=", kind |-> "str", val |-> val]

Attr(path, tokens) == [path |-> path, tokens |-> tokens]
DocAttr(text) == Attr(<<"doc">>, <<EqLit(text)>>)

\* syn::Path::get_ident: Some(ident) only for a path of one segment
get_ident(path) == IF Len(path) = 1 THEN Some(path[1]) ELSE None

\* The strings of the model that are no identifier: format_ident!("{}", s)
\* panics on them, and syn parses none of them as a Path.
NotIdents == {"", "Input Favorites"}
IsIdent(s) == s \notin NotIdents
IsPath(s) == s \notin NotIdents

\* ---------------------------------------------------------- option schema
\* GraphqlObjectMetaArgs::default()
DefaultMetaArgs ==
    [input_type_doc |-> None, input_type_name |-> None,
     skip_derive_simple_object |-> FALSE]

MetaArgKeys == {"input_type_doc", "input_type_name", "skip_derive_simple_object"}
FieldArgKeys == {"input_type"}

Error(msg, at) == [item |-> "compile_error", msg |-> msg, at |-> at]

\* Option<String>::from_meta
StringFromMeta(m) ==
    IF m.kind = "str" THEN [ok |-> TRUE, v |-> Some(m.val), msg |-> ""]
    ELSE [ok |-> FALSE, v |-> None, msg |-> "Unexpected meta-item format word"]

\* bool::from_meta: a bare word is true, a string is parsed
BoolFromMeta(m) ==
    IF m.kind = "word" THEN [ok |-> TRUE, v |-> TRUE, msg |-> ""]
    ELSE IF m.val \in {"true", "false"}
         THEN [ok |-> TRUE, v |-> (m.val = "true"), msg |-> ""]
         ELSE [ok |-> FALSE, v |-> FALSE, msg |-> "Unknown literal value " \o m.val]

\* Option<Path>::from_meta
PathFromMeta(m) ==
    IF m.kind # "str"
    THEN [ok |-> FALSE, v |-> None, msg |-> "Unexpected meta-item format word"]
    ELSE IF IsPath(m.val)
         THEN [ok |-> TRUE, v |-> Some(m.val), msg |-> ""]
         ELSE [ok |-> FALSE, v |-> None, msg |-> "Unknown literal value " \o m.val]

\* One meta item of the struct-level list, as #[derive(FromMeta)] handles it.
\* acc = [value, seen, errors]
MetaArgsStep(acc, m) ==
    IF m.name \notin MetaArgKeys
    THEN [acc EXCEPT !.errors = Append(@, Error("Unknown field: " \o m.name \o "", m.name))]
    ELSE IF m.name \in acc.seen
    THEN [acc EXCEPT !.errors = Append(@, Error("Duplicate field " \o m.name \o "", m.name))]
    ELSE LET seen == acc.seen \cup {m.name} IN
         IF m.name = "skip_derive_simple_object"
         THEN LET r == BoolFromMeta(m) IN
              IF r.ok
              THEN [acc EXCEPT !.seen = seen, !.value.skip_derive_simple_object = r.v]
              ELSE [acc EXCEPT !.seen = seen, !.errors = Append(@, Error(r.msg, m.name))]
         ELSE LET r == StringFromMeta(m) IN
              IF ~r.ok
              THEN [acc EXCEPT !.seen = seen, !.errors = Append(@, Error(r.msg, m.name))]
              ELSE IF m.name = "input_type_doc"
                   THEN [acc EXCEPT !.seen = seen, !.value.input_type_doc = r.v]
                   ELSE [acc EXCEPT !.seen = seen, !.value.input_type_name = r.v]

RECURSIVE MetaArgsFold(_, _, _)
MetaArgsFold(acc, items, i) ==
    IF i > Len(items) THEN acc
    ELSE MetaArgsFold(MetaArgsStep(acc, items[i]), items, i + 1)

\* GraphqlObjectMetaArgs::from_list
MetaArgs_from_list(items) ==
    LET r == MetaArgsFold([value |-> DefaultMetaArgs, seen |-> {}, errors |-> <<>>], items, 1)
    IN  [ok |-> r.errors = <<>>, value |-> r.value, errors |-> r.errors]

\* One meta item of a field's #[graphql_object(...)] list.
FieldArgsStep(acc, m) ==
    IF m.name \notin FieldArgKeys
    THEN [acc EXCEPT !.errors = Append(@, Error("Unknown field: " \o m.name \o "", m.name))]
    ELSE IF m.name \in acc.seen
    THEN [acc EXCEPT !.errors = Append(@, Error("Duplicate field " \o m.name \o "", m.name))]
    ELSE LET r == PathFromMeta(m) IN
         IF r.ok
         THEN [acc EXCEPT !.seen = acc.seen \cup {m.name}, !.value.input_type = r.v]
         ELSE [acc EXCEPT !.seen = acc.seen \cup {m.name},
                          !.errors = Append(@, Error(r.msg, m.name))]

RECURSIVE FieldArgsItems(_, _, _)
FieldArgsItems(acc, items, i) ==
    IF i > Len(items) THEN acc
    ELSE FieldArgsItems(FieldArgsStep(acc, items[i]), items, i + 1)

\* only the attributes named graphql_object are read (darling(attributes(..)))
RECURSIVE FieldArgsAttrs(_, _, _)
FieldArgsAttrs(acc, attrs, i) ==
    IF i > Len(attrs) THEN acc
    ELSE IF get_ident(attrs[i].path) = Some("graphql_object")
         THEN FieldArgsAttrs(FieldArgsItems(acc, attrs[i].tokens, 1), attrs, i + 1)
         ELSE FieldArgsAttrs(acc, attrs, i + 1)

\* GraphqlObjectFieldArgs::from_field
FieldArgs_from_field(field) ==
    LET r == FieldArgsAttrs([value |-> [input_type |-> None], seen |-> {}, errors |-> <<>>],
                            field.attrs, 1)
    IN  [ok |-> r.errors = <<>>, value |-> r.value, errors |-> r.errors]

\* ------------------------------------------------------------- generators
\* faulty variant: compares the last path segment instead of the whole path
strip_annotations_last_segment(path, attrs) ==
    SelectSeq(attrs, LAMBDA attr : attr.path[Len(attr.path)] # path)

\* utils::strip_annotations_with_path
strip_annotations_with_path(path, attrs) ==
    SelectSeq(attrs, LAMBDA attr : get_ident(attr.path) # Some(path))

\* the tokens of quote! { #[derive(path)] #struct }, read back as one item
DeriveAttr(path) == Attr(<<"derive">>, <<Word(path)>>)
StructItem(extra_attrs, s) ==
    [item |-> "struct", attrs |-> extra_attrs \o s.attrs, ident |-> s.ident,
     fields_kind |-> s.fields_kind, fields |-> s.fields]

\* faulty variant: the derive is attached whatever the flag says
extra_derive_always(opts) == <<DeriveAttr("::async_graphql::SimpleObject")>>

\* lib.rs 166-172
extra_derive(opts) ==
    IF ~opts.skip_derive_simple_object
    THEN <<DeriveAttr("::async_graphql::SimpleObject")>>
    ELSE <<>>

\* faulty variant: the flag skips the whole output struct
generate_output_struct_skipped(reference, opts) ==
    IF opts.skip_derive_simple_object THEN <<>>
    ELSE <<StructItem(extra_derive(opts), reference)>>

generate_output_struct(reference, opts) ==
    LET output_obj_struct ==
            [reference EXCEPT !.fields =
                [i \in 1..Len(reference.fields) |->
                    [reference.fields[i] EXCEPT
                        !.attrs = strip_annotations_with_path("graphql_object", @)]]]
    IN  <<StructItem(extra_derive(opts), output_obj_struct)>>

\* faulty variant: input_type_name used as a suffix of the struct's name
input_ident_suffix(reference, opts) ==
    IF opts.input_type_name # None THEN reference.ident \o opts.input_type_name[1]
    ELSE reference.ident \o "Input"

\* the name of the input struct (lib.rs 191-197)
input_ident(reference, opts) ==
    IF opts.input_type_name # None THEN opts.input_type_name[1]
    ELSE reference.ident \o "Input"

\* index of the first attribute named doc, 0 when there is none
RECURSIVE first_doc(_, _)
first_doc(attrs, i) ==
    IF i > Len(attrs) THEN 0
    ELSE IF get_ident(attrs[i].path) = Some("doc") THEN i
    ELSE first_doc(attrs, i + 1)

\* the struct attributes of the input struct (lib.rs 199-211)
input_attrs(attrs, opts) ==
    IF opts.input_type_doc # None /\ first_doc(attrs, 1) # 0
    THEN [attrs EXCEPT ![first_doc(attrs, 1)].tokens = <<EqLit(opts.input_type_doc[1])>>]
    ELSE attrs

\* faulty variant: the field keeps its type
input_field_same_type(field, args) ==
    [field EXCEPT
        !.attrs = SelectSeq(@, LAMBDA attr : get_ident(attr.path) # Some("graphql_object"))]

\* one pass of the field loop (lib.rs 215-230), for a field whose options are valid
input_field(field, args) ==
    [field EXCEPT
        !.ty = IF args.input_type # None THEN args.input_type[1] ELSE @,
        !.attrs = SelectSeq(@, LAMBDA attr : get_ident(attr.path) # Some("graphql_object"))]

\* faulty variant: the loop goes on after an invalid field and reports every field's errors
RECURSIVE input_fields_collect_all(_, _, _)
input_fields_collect_all(fields, done, i) ==
    IF i > Len(fields) THEN [ok |-> TRUE, fields |-> done, errors |-> <<>>]
    ELSE LET args == FieldArgs_from_field(fields[i])
             rest == input_fields_collect_all(fields, Append(done, fields[i]), i + 1)
         IN  IF ~args.ok
             THEN [ok |-> FALSE, fields |-> done, errors |-> args.errors \o rest.errors]
             ELSE IF ~rest.ok THEN rest
             ELSE input_fields_collect_all(
                      fields, Append(done, input_field(fields[i], args.value)), i + 1)

\* the field loop (lib.rs 214-231): stops at the first field whose options are invalid
RECURSIVE input_fields(_, _, _)
input_fields(fields, done, i) ==
    IF i > Len(fields) THEN [ok |-> TRUE, fields |-> done, errors |-> <<>>]
    ELSE LET args == FieldArgs_from_field(fields[i]) IN
         IF ~args.ok THEN [ok |-> FALSE, fields |-> done, errors |-> args.errors]
         ELSE input_fields(fields, Append(done, input_field(fields[i], args.value)), i + 1)

Returned(items) == [panicked |-> FALSE, msg |-> "", items |-> items]
Panicked(msg) == [panicked |-> TRUE, msg |-> msg, items |-> <<>>]

\* faulty variant: every field is read from the first field of the input
field_assignments_first_source(fields) ==
    IF \E i \in 1..Len(fields) : fields[i].ident = None
    THEN Panicked("Can't work with tuple structs")
    ELSE Returned([i \in 1..Len(fields) |->
                    [name |-> fields[i].ident[1], from |-> fields[1].ident[1],
                     via |-> "into"]])

\* faulty variant: a field without a name is passed over instead of ending the expansion
field_assignments_skip_unnamed(fields) ==
    LET named == SelectSeq(fields, LAMBDA f : f.ident # None) IN
    Returned([i \in 1..Len(named) |->
                [name |-> named[i].ident[1], from |-> named[i].ident[1], via |-> "into"]])

\* the field assignments of the Into implementation (lib.rs 245-253):
\* name: self.name.into() for each field, a panic at a field without a name
field_assignments(fields) ==
    IF \E i \in 1..Len(fields) : fields[i].ident = None
    THEN Panicked("Can't work with tuple structs")
    ELSE Returned([i \in 1..Len(fields) |->
                    [name |-> fields[i].ident[1], from |-> fields[i].ident[1],
                     via |-> "into"]])

ImplItem(orig_ident, input_obj_ident, assignments) ==
    [item |-> "impl", trait |-> "Into", target |-> orig_ident, for |-> input_obj_ident,
     assignments |-> assignments]

generate_input_struct(reference, opts) ==
    LET name == input_ident(reference, opts)
        fs == input_fields(reference.fields, <<>>, 1)
        assignments == field_assignments(reference.fields)
        input_obj_struct ==
            [reference EXCEPT !.ident = name, !.attrs = input_attrs(@, opts),
                              !.fields = fs.fields]
    IN  IF ~IsIdent(name) THEN Panicked("not a valid identifier")
        ELSE IF ~fs.ok THEN Returned(fs.errors)
        ELSE IF assignments.panicked THEN assignments
        ELSE Returned(<<StructItem(<<DeriveAttr("::async_graphql::InputObject")>>,
                                   input_obj_struct),
                        ImplItem(reference.ident, name, assignments.items)>>)

\* ------------------------------------------------------------------ inputs
SeqsUpTo(S, n) == UNION {[1..k -> S] : k \in 0..n}

ArgPool ==
    {NameValue("input_type_doc", "Input for user information data"),
     NameValue("input_type_name", "InputFavorites"),
     NameValue("input_type_name", "UserData"),
     NameValue("input_type_name", "Input Favorites"),
     Word("skip_derive_simple_object"),
     NameValue("input_object_doc", "Input for user information data")}

StructNames == {"UserData"}

StructAttrChoices ==
    {<<>>,
     <<DocAttr("Information about the user")>>,
     <<DocAttr("Information about the user"), DocAttr("second line")>>,
     <<Attr(<<"derive">>, <<Word("Clone")>>), DocAttr("Information about the user")>>}

GraphqlObject(items) == Attr(<<"graphql_object">>, items)

FieldAttrChoices ==
    {<<>>,
     <<GraphqlObject(<<NameValue("input_type", "InputFavorites")>>)>>,
     <<Attr(<<"serde">>, <<Word("default")>>),
       GraphqlObject(<<NameValue("input_type", "inputs::InputFavorites")>>),
       Attr(<<"other", "graphql_object">>, <<Word("x")>>)>>,
     <<GraphqlObject(<<Word("nested")>>)>>,
     <<GraphqlObject(<<NameValue("input_type", "InputFavorites"),
                       NameValue("input_type", "UserDataInput")>>)>>,
     <<DocAttr("favorite things"), GraphqlObject(<<Word("input_type")>>)>>}

FieldNames == <<"username", "display_name", "favorites", "email">>
FieldTypes == <<"String", "String", "Favorites", "String">>

NamedFields(attrs) ==
    [i \in 1..Len(attrs) |->
        [attrs |-> attrs[i], ident |-> Some(FieldNames[i]), ty |-> FieldTypes[i]]]
UnnamedFields(attrs) ==
    [i \in 1..Len(attrs) |-> [attrs |-> attrs[i], ident |-> None, ty |-> FieldTypes[i]]]

ItemStruct(attrs, ident, kind, fields) ==
    [attrs |-> attrs, ident |-> ident, fields_kind |-> kind, fields |-> fields]

RefStructs ==
    {ItemStruct(a, n, "Named", NamedFields(f)) :
        a \in StructAttrChoices, n \in StructNames, f \in SeqsUpTo(FieldAttrChoices, MaxFields)}
    \cup
    {ItemStruct(a, n, "Unnamed", UnnamedFields(f)) :
        a \in StructAttrChoices, n \in StructNames,
        f \in SeqsUpTo(FieldAttrChoices, MaxFields) \ {<<>>}}
    \cup
    {ItemStruct(a, n, "Unit", <<>>) : a \in StructAttrChoices, n \in StructNames}

\* ---------------------------------------------------------------- behaviour
Init ==
    /\ attr_args \in SeqsUpTo(ArgPool, MaxArgs)
    /\ reference_struct \in RefStructs
    /\ options = DefaultMetaArgs
    /\ out = <<>>
    /\ pc = "start"
    /\ panic = ""

\* lib.rs 108-110: a failed validation returns the diagnostics alone
ParseOptions ==
    /\ pc = "start"
    /\ LET r == MetaArgs_from_list(attr_args) IN
         IF r.ok
         THEN /\ options' = r.value
              /\ pc' = "options"
              /\ out' = out
         ELSE /\ out' = r.errors
              /\ pc' = "done"
              /\ options' = options
    /\ UNCHANGED <<attr_args, reference_struct, panic>>

\* lib.rs 121-125
GenerateOutput ==
    /\ pc = "options"
    /\ out' = out \o generate_output_struct(reference_struct, options)
    /\ pc' = "output"
    /\ UNCHANGED <<attr_args, reference_struct, options, panic>>

\* lib.rs 128-150: a panic of the generator ends the expansion without output
GenerateInput ==
    /\ pc = "output"
    /\ LET o == generate_input_struct(reference_struct, options) IN
         IF o.panicked
         THEN /\ panic' = o.msg
              /\ out' = <<>>
         ELSE /\ panic' = panic
              /\ out' = out \o o.items
    /\ pc' = "done"
    /\ UNCHANGED <<attr_args, reference_struct, options>>

Next == ParseOptions \/ GenerateOutput \/ GenerateInput

Spec == Init /\ [][Next]_vars

\* ------------------------------------------------- the inputs, as written
\* What one expansion was given, read off the macro arguments and the
\* reference struct themselves (not off the validated options).
Done == pc = "done"

Given(key) == \E i \in 1..Len(attr_args) : attr_args[i].name = key
ValueOf(key) == attr_args[CHOOSE i \in 1..Len(attr_args) : attr_args[i].name = key].val

OptionsValid ==
    /\ \A i \in 1..Len(attr_args) :
          \/ /\ attr_args[i].name \in {"input_type_doc", "input_type_name"}
             /\ attr_args[i].kind = "str"
          \/ /\ attr_args[i].name = "skip_derive_simple_object"
             /\ attr_args[i].kind = "word" \/ attr_args[i].val \in {"true", "false"}
    /\ \A i, j \in 1..Len(attr_args) : attr_args[i].name = attr_args[j].name => i = j

InputNameIsIdent == Given("input_type_name") => IsIdent(ValueOf("input_type_name"))

SkipGiven ==
    \E i \in 1..Len(attr_args) :
        /\ attr_args[i].name = "skip_derive_simple_object"
        /\ attr_args[i].kind = "word" \/ attr_args[i].val = "true"

\* the positions <<attribute, item>> of the graphql_object options of a field
OptionPositions(field) ==
    UNION {{<<a, k>> : k \in 1..Len(field.attrs[a].tokens)} :
              a \in {x \in 1..Len(field.attrs) : field.attrs[x].path = <<"graphql_object">>}}

FieldOptionsValid(field) ==
    /\ \A p \in OptionPositions(field) :
          LET m == field.attrs[p[1]].tokens[p[2]] IN
          m.name = "input_type" /\ m.kind = "str" /\ IsPath(m.val)
    /\ Cardinality(OptionPositions(field)) <= 1

HasInputType(field) == OptionPositions(field) # {}
InputTypeOf(field) ==
    LET p == CHOOSE q \in OptionPositions(field) : TRUE
    IN  field.attrs[p[1]].tokens[p[2]].val

Fields == reference_struct.fields
NumFields == Len(Fields)
AllFieldOptionsValid == \A i \in 1..NumFields : FieldOptionsValid(Fields[i])
NamedOrUnit == reference_struct.fields_kind \in {"Named", "Unit"}

\* an expansion whose struct-level and field-level options are all valid
ValidOptionSet == OptionsValid /\ InputNameIsIdent /\ AllFieldOptionsValid

IsStruct(x) == x.item = "struct"
IsImpl(x) == x.item = "impl"
IsDiagnostic(x) == x.item = "compile_error"
HasDerive(x, path) == \E a \in 1..Len(x.attrs) : x.attrs[a] = DeriveAttr(path)
DocStrings(attrs) == SelectSeq(attrs, LAMBDA a : a.path = <<"doc">>)
WithoutPath(attrs, path) == SelectSeq(attrs, LAMBDA a : a.path # path)

ThreeItems ==
    /\ Len(out) = 3
    /\ IsStruct(out[1]) /\ out[1].ident = reference_struct.ident
    /\ IsStruct(out[2])
    /\ IsImpl(out[3]) /\ out[3].trait = "Into"
    /\ out[3].for = out[2].ident /\ out[3].target = out[1].ident

\* ------------------------------------------------------------------ claims

C3_FieldTypes ==
    (Done /\ NamedOrUnit /\ ValidOptionSet) =>
        /\ Len(out) = 3
        /\ Len(out[1].fields) = NumFields /\ Len(out[2].fields) = NumFields
        /\ \A i \in 1..NumFields :
              /\ out[2].fields[i].ident = Fields[i].ident
              /\ out[1].fields[i].ident = Fields[i].ident
              /\ out[2].fields[i].ty = IF HasInputType(Fields[i]) THEN InputTypeOf(Fields[i])
                                       ELSE Fields[i].ty
              /\ out[1].fields[i].ty = Fields[i].ty

C3_Witness ==
    /\ Done /\ ValidOptionSet /\ NamedOrUnit /\ NumFields = 2 /\ Len(out) = 3
    /\ HasInputType(Fields[1]) /\ ~HasInputType(Fields[2])
    /\ out[2].fields[1].ty = "InputFavorites" /\ out[1].fields[1].ty = "String"
    /\ out[2].fields[2].ty = "String"

\* C4: the conversion assigns every field of the output declaration once,
\* in declaration order, from the input field of the same name through
\* into(); the assigned names are the field names of both declarations.
C4_Conversion ==
    (Done /\ NamedOrUnit /\ ValidOptionSet) =>
        /\ Len(out) = 3
        /\ Len(out[3].assignments) = Len(out[1].fields)
        /\ \A i \in 1..Len(out[3].assignments) :
              /\ Some(out[3].assignments[i].name) = out[1].fields[i].ident
              /\ out[3].assignments[i].from = out[3].assignments[i].name
              /\ out[3].assignments[i].via = "into"
        /\ \A i, j \in 1..Len(out[3].assignments) :
              out[3].assignments[i].name = out[3].assignments[j].name => i = j
        /\ {Some(out[3].assignments[i].name) : i \in 1..Len(out[3].assignments)}
              = {out[2].fields[i].ident : i \in 1..Len(out[2].fields)}

C4_Witness ==
    /\ Done /\ ValidOptionSet /\ NamedOrUnit /\ NumFields = 2 /\ Len(out) = 3
    /\ out[3].assignments =
          <<[name |-> "username", from |-> "username", via |-> "into"],
            [name |-> "display_name", from |-> "display_name", via |-> "into"]>>

\* C5 (as stated): with input_type_doc given, the input declaration has a
\* doc attribute carrying that string and the output declaration's doc
\* attributes are those of the reference struct, for every reference struct.
C5_InputDocApplied ==
    (Done /\ NamedOrUnit /\ ValidOptionSet /\ Given("input_type_doc")) =>
        /\ Len(out) = 3
        /\ \E a \in 1..Len(out[2].attrs) :
              out[2].attrs[a] = DocAttr(ValueOf("input_type_doc"))
        /\ DocStrings(out[1].attrs) = DocStrings(reference_struct.attrs)

\* C6: SimpleObject is derived on the output declaration iff
\* skip_derive_simple_object is off; the input declaration, its InputObject
\* derive and the conversion are what the other value of the flag yields.
C6_SkipDeriveOnly ==
    (Done /\ NamedOrUnit /\ ValidOptionSet) =>
        LET flipped == [options EXCEPT !.skip_derive_simple_object = ~@] IN
        /\ Len(out) = 3
        /\ HasDerive(out[1], "::async_graphql::SimpleObject") <=> ~SkipGiven
        /\ HasDerive(out[2], "::async_graphql::InputObject")
        /\ ~HasDerive(out[2], "::async_graphql::SimpleObject")
        /\ <<out[2], out[3]>> = generate_input_struct(reference_struct, flipped).items
        /\ WithoutPath(out[1].attrs, <<"derive">>)
              = WithoutPath(reference_struct.attrs, <<"derive">>)

C6_Witness ==
    /\ Done /\ ValidOptionSet /\ NamedOrUnit /\ SkipGiven /\ Len(out) = 3
    /\ ~HasDerive(out[1], "::async_graphql::SimpleObject")
    /\ HasDerive(out[2], "::async_graphql::InputObject")

\* C7 (as stated): the option keys of the repository's examples, the
\* struct-level input_object_doc and the field-level nested, are accepted:
\* the expansion has no error diagnostic and yields UserDataInput and its
\* conversion into UserData.
ExampleKeysOnly ==
    /\ attr_args \in {<<>>, <<NameValue("input_object_doc", "Input for user information data")>>}
    /\ reference_struct.ident = "UserData"
    /\ reference_struct.fields_kind = "Named"
    /\ \A i \in 1..NumFields :
          Fields[i].attrs \in {<<>>, <<GraphqlObject(<<Word("nested")>>)>>}

C7_ExampleKeysAccepted ==
    (Done /\ ExampleKeysOnly) =>
        /\ panic = ""
        /\ \A i \in 1..Len(out) : ~IsDiagnostic(out[i])
        /\ \E i \in 1..Len(out) : IsStruct(out[i]) /\ out[i].ident = "UserDataInput"
        /\ \E i \in 1..Len(out) :
              IsImpl(out[i]) /\ out[i].for = "UserDataInput" /\ out[i].target = "UserData"

\* C8: a failed validation leaves diagnostics and neither an input
\* declaration nor a conversion: alone for the struct-level options, after
\* the output declaration for a field, and only those of the first field
\* whose options are invalid.
FirstInvalidField ==
    CHOOSE i \in 1..NumFields :
        /\ ~FieldOptionsValid(Fields[i])
        /\ \A j \in 1..(i - 1) : FieldOptionsValid(Fields[j])

C8_FailedValidation ==
    /\ (Done /\ ~OptionsValid) =>
          /\ panic = "" /\ out # <<>>
          /\ \A i \in 1..Len(out) : IsDiagnostic(out[i])
    /\ (Done /\ OptionsValid /\ InputNameIsIdent /\ ~AllFieldOptionsValid) =>
          /\ panic = "" /\ Len(out) >= 2
          /\ IsStruct(out[1]) /\ out[1].ident = reference_struct.ident
          /\ \A i \in 2..Len(out) : IsDiagnostic(out[i])
          /\ SubSeq(out, 2, Len(out)) = FieldArgs_from_field(Fields[FirstInvalidField]).errors

C8_Witness ==
    /\ Done /\ OptionsValid /\ InputNameIsIdent /\ NumFields = 2
    /\ ~FieldOptionsValid(Fields[1]) /\ ~FieldOptionsValid(Fields[2])
    /\ Fields[1].attrs # Fields[2].attrs
    /\ Len(out) = 2 /\ IsStruct(out[1]) /\ IsDiagnostic(out[2])

\* C9: after a successful expansion no field of either declaration has an
\* attribute whose path is the single identifier graphql_object, and every
\* other attribute of every field is kept in order.
C9_FieldAttributes ==
    (Done /\ NamedOrUnit /\ ValidOptionSet) =>
        /\ Len(out) = 3
        /\ \A d \in 1..2 : \A i \in 1..NumFields :
              /\ \A a \in 1..Len(out[d].fields[i].attrs) :
                    out[d].fields[i].attrs[a].path # <<"graphql_object">>
              /\ out[d].fields[i].attrs = WithoutPath(Fields[i].attrs, <<"graphql_object">>)

C9_Witness ==
    /\ Done /\ NamedOrUnit /\ ValidOptionSet /\ Len(out) = 3 /\ NumFields >= 1
    /\ Len(Fields[1].attrs) = 3
    /\ Len(out[1].fields[1].attrs) = 2 /\ Len(out[2].fields[1].attrs) = 2
    /\ out[1].fields[1].attrs[2].path = <<"other", "graphql_object">>

\* C10 (as stated): a struct with unnamed fields is rejected through error
\* diagnostics without the expansion being aborted, and a unit struct
\* expands to a conversion with an empty field list.
C10_TupleStructDiagnostics ==
    /\ (Done /\ reference_struct.fields_kind = "Unnamed") =>
          /\ panic = ""
          /\ \E i \in 1..Len(out) : IsDiagnostic(out[i])
    /\ (Done /\ reference_struct.fields_kind = "Unit" /\ ValidOptionSet) =>
          /\ panic = "" /\ Len(out) = 3 /\ out[3].assignments = <<>>

\* C10 (amended): with a valid option set, a struct with unnamed fields
\* aborts the expansion with the panic "Can't work with tuple structs" and
\* the expansion has no output, no diagnostics either; a unit struct expands
\* to a conversion with an empty field list.
C10_TupleStructPanics ==
    /\ (Done /\ reference_struct.fields_kind = "Unnamed" /\ ValidOptionSet) =>
          /\ panic = "Can't work with tuple structs"
          /\ out = <<>>
    /\ (Done /\ reference_struct.fields_kind = "Unit" /\ ValidOptionSet) =>
          /\ panic = "" /\ Len(out) = 3 /\ IsImpl(out[3]) /\ out[3].assignments = <<>>

C10_Witness ==
    /\ Done /\ reference_struct.fields_kind = "Unnamed" /\ ValidOptionSet
    /\ NumFields = 2 /\ panic = "Can't work with tuple structs"

====
